---- MODULE Spec2Model ----
(***************************************************************************)
(* The orchestrator of src/src/background.ts as a state machine.           *)
(*                                                                         *)
(* The service worker keeps one global task record (currentTask), one      *)
(* pending-credential slot, a set of setTimeout timers and three stores    *)
(* (task history, completed tasks, the vault).  The message listener calls *)
(* agentOrchestrator(event) WITHOUT awaiting it, so every handler is an    *)
(* async call chain that runs synchronously up to its next `await`, is     *)
(* suspended there, and is resumed when the awaited call resolves.  The    *)
(* model keeps one record per suspended chain (its await point and its     *)
(* locals) in the bag `chains`; an action is either the arrival of a       *)
(* control event (the handler runs up to its first await) or the           *)
(* resolution of one awaited call (the chain runs up to its next await).   *)
(* Consecutive awaits between which the code touches no shared state are   *)
(* one await point.                                                        *)
(***************************************************************************)
EXTENDS Integers, Sequences, FiniteSets, Bags, TLC

\* ------------------------------------------------------------------ bounds
\* The default specification (two tasks racing, stop, reset, take-over).
RaceMaxEvents == 3
RaceMaxTurn == 1
\* The turn-loop specification (one task, one extra control event).
TurnMaxEvents == 2
TurnMaxTurn == 4
\* The waiting specification (long waits, credentials, stop, new task).
WaitMaxEvents == 3
WaitMaxTurn == 2
AnswerMaxEvents == 3
AnswerMaxTurn == 1
TeachMaxEvents == 4
TeachMaxTurn == 1
DebateMaxEvents == 3
DebateMaxTurn == 1
FailMaxEvents == 2
FailMaxTurn == 2
EndMaxEvents == 2
EndMaxTurn == 2
VaultMaxEvents == 3
VaultMaxTurn == 2
LearnMaxEvents == 4
LearnMaxTurn == 1
ActMaxEvents == 1
ActMaxTurn == 3
FactsMaxEvents == 2
FactsMaxTurn == 1
PlanMaxEvents == 2
PlanMaxTurn == 2
TimerMaxEvents == 2
TimerMaxTurn == 2
ShowMaxEvents == 2
ShowMaxTurn == 1
StoreMaxSaves == 2
StoreMaxClock == 2

\* ------------------------------------------------------- program constants
FailureThreshold == 3
HistoryCap == 10
CompletedCap == 50
ToolsCap == 4
MaxRetries == 5

Hosts == {"h1"}
StepKinds == Hosts \cup {"elsewhere"}

VARIABLES
  task,                    \* currentTask (NoTask when null)
  pendingCredentialValue,  \* 0 when null, else the captured value
  chains,                  \* bag of suspended async call chains
  timers,                  \* pending setTimeout timers of LONG_WAIT
  historicalTasks,         \* chrome.storage.local 'historicalTasks' (goals)
  completedTasks,          \* chrome.storage.local 'completedTasks' (goals)
  vaultUnlocked,           \* a session key is present
  vaultStore,              \* credential values written to the vault
  shown,                   \* the task of the last TASK_UPDATE message: its
                           \* id, status and scratchpad
  disk,                    \* the two persisted lists with their timestamps,
                           \* the clock and the saves in flight
  learnedTools,            \* chrome.storage.local 'learnedTools' (the goals
                           \* and steps something was learned for)
  nextId,                  \* ids handed to tasks and timers so far
  nEvents,                 \* control events received so far
  unhandled,               \* some chain ended in an unhandled rejection
  call,                    \* one geminiCall: where it is suspended (phase),
                           \* the attempt it is in, the backoff delays it
                           \* slept, the secondary calls it issued
  last                     \* the step just taken: the event or the call that
                           \* resolved (op) and its result (out), the task the
                           \* resumed chain began for (by), the timer cleared
                           \* or fired (t), the failingStep (fs) and the
                           \* Manager decision (d) the resumed chain holds, and, when
                           \* the step settles it, the number of continuation
                           \* events the action dispatches (events, else -1)

vars == <<task, pendingCredentialValue, chains, timers, historicalTasks,
          completedTasks, vaultUnlocked, vaultStore, learnedTools, nextId,
          nEvents, unhandled, call, disk, shown, last>>

NoFailures == [h \in Hosts |-> 0]

NoTask ==
  [id |-> 0, goal |-> "", status |-> "ABSENT", plan |-> <<>>, currentStep |-> 0,
   turn |-> 0, scratchpad |-> <<>>, researchData |-> 0,
   researcherDecision |-> FALSE, finalAnswer |-> "", failureReason |-> "",
   lastFailedAction |-> FALSE, stepFailureCount |-> 0, tabs |-> FALSE,
   websiteFailures |-> NoFailures, isTraining |-> FALSE,
   isDeliberatePlan |-> FALSE, isPartialSuccess |-> FALSE, waitTimeoutId |-> 0,
   recordedActions |-> 0, managerCalls |-> 0, planUndefined |-> FALSE]

NewTask(id, goal) ==
  [NoTask EXCEPT !.id = id, !.goal = goal, !.status = "RESEARCHING",
                 !.scratchpad = <<"log">>]

Terminal == {"COMPLETED", "FAILED", "STOPPED"}

\* The statuses in which runNextTurn returns at once.
SkipTurn ==
  {"COMPLETED", "FAILED", "STOPPED", "USER_INPUT_PENDING", "TEACHING",
   "RESEARCHING", "WAITING", "AWAITING_CREDENTIAL_NAME", "AWAITING_PASSPHRASE"}

\* The program state a synchronous stretch of code reads and writes.
World ==
  [task |-> task, pend |-> pendingCredentialValue, timers |-> timers,
   hist |-> historicalTasks, done |-> completedTasks,
   unlocked |-> vaultUnlocked, store |-> vaultStore, tools |-> learnedTools,
   nid |-> nextId, unh |-> unhandled, shown |-> shown, events |-> -1]

HasTask(w) == w.task.id # 0

\* A suspended chain: its await point (pc), the task that was current when
\* the chain began (tid), the handler at its root (root), the number of
\* try blocks of runNextTurn it is nested in (tries), and its locals.
Chain(pc, tid, root) ==
  [pc |-> pc, tid |-> tid, root |-> root, tries |-> 0, d |-> "", ui |-> FALSE, fs |-> 0,
   g |-> "", ng |-> "", snap |-> <<>>, ref |-> 0, excl |-> {}, v |-> 0,
   rb |-> FALSE, rv |-> FALSE, ok |-> TRUE, reason |-> "", nofp |-> FALSE,
   facts |-> <<>>]

At(c, pc) == [c EXCEPT !.pc = pc]

End(w) == [w |-> w, th |-> <<>>]
Go(w, c) == [w |-> w, th |-> <<c>>]
Also(r, cs) == [r EXCEPT !.th = @ \o cs]

Take(s, n) == IF Len(s) <= n THEN s ELSE SubSeq(s, 1, n)
Has(s, x) == \E i \in 1..Len(s) : s[i] = x

\* ---------------------------------------------------------------- helpers
\* What a TASK_UPDATE message shows of the task it carries.
Snapshot(t) == [id |-> t.id, status |-> t.status, scratchpad |-> t.scratchpad]

\* updateUI(): with no task nothing is sent.
updateUI(w) == IF HasTask(w) THEN [w EXCEPT !.shown = Snapshot(w.task)] ELSE w

\* A log that keeps only its newest entry.
addToScratchpadNewest(w, e) ==
  IF HasTask(w) THEN updateUI([w EXCEPT !.task.scratchpad = <<e>>]) ELSE w
addToScratchpad(w, e) ==
  IF HasTask(w) THEN updateUI([w EXCEPT !.task.scratchpad = Append(@, e)]) ELSE w

updateTaskStatus(w, s) ==
  IF HasTask(w) THEN updateUI([w EXCEPT !.task.status = s]) ELSE w

\* updateTaskStatus(status, reason): the reason goes to failureReason and to
\* the scratchpad.
updateTaskStatusReason(w, s, reason) ==
  IF HasTask(w)
  THEN addToScratchpad(
         [w EXCEPT !.task.status = s, !.task.failureReason = reason], reason)
  ELSE w

\* A TypeError raised by dereferencing currentTask while it is null.  The
\* catch of runNextTurn (tries > 0), of handleStartTask, of
\* handleSaveCredential and of runDeliberateFlow all do nothing when the
\* task is null; with no enclosing catch the promise is rejected unhandled.
NullDeref(w, c) ==
  IF c.tries > 0 \/ c.root \in {"start", "cred", "delib"}
  THEN End(w)
  ELSE End([w EXCEPT !.unh = TRUE])

\* saveCompletedTask() is called without await: a chain of its own.
saveCompletedTask(w, c) ==
  IF HasTask(w) /\ w.task.finalAnswer # ""
  THEN <<Chain("sc_get", c.tid, "save")>>
  ELSE <<>>

\* The hosts the three-strikes rule of the replan prompt forbids.
Struck(t) == {h \in Hosts : t.websiteFailures[h] >= FailureThreshold}

\* handleStuckState up to the first await of getPlannerDecision.  The replan
\* context holds failingStep (fs), and refers to the task's websiteFailures
\* object (ref: whose it is).
handleStuckState(w, c, ui) ==
  IF ~HasTask(w) THEN End(w)
  ELSE Go(updateTaskStatus(addToScratchpad(w, "log"), "REPLANNING"),
          [At(c, "replan_ctx") EXCEPT
             !.ui = ui, !.fs = w.task.currentStep + 1, !.ref = w.task.id,
             !.excl = Struck(w.task), !.nofp = w.task.planUndefined])

\* A TypeError raised by reading .length or .map of a plan that is undefined.
\* Inside a try of runNextTurn its catch logs and calls handleStuckState;
\* the catch of handleStartTask fails the task; with no enclosing catch the
\* promise is rejected unhandled.
PlanTypeError(w, c) ==
  IF c.tries > 0
  THEN handleStuckState(addToScratchpad(w, "log"), [c EXCEPT !.tries = @ - 1], FALSE)
  ELSE IF c.root = "start"
       THEN End(IF HasTask(w) THEN updateTaskStatusReason(w, "FAILED", "TypeError")
                ELSE w)
       ELSE End([w EXCEPT !.unh = TRUE])

\* getPlannerDecision builds the replan prompt after it has awaited the
\* similar tasks and the preflight context.  The prompt shows the per-host
\* tallies, with the three-strikes rule, only when the replan is not
\* user-initiated; the tallies are read now, through the reference.
buildReplanPrompt(w, c) ==
  IF c.nofp THEN PlanTypeError(w, c) ELSE
  Go(w, [At(c, "replan") EXCEPT
           !.excl = IF c.ui THEN {}
                    ELSE IF w.task.id = c.ref THEN Struck(w.task)
                    ELSE c.excl])

\* runNextTurn up to its first await.
runNextTurn(w, c) ==
  IF ~HasTask(w) \/ w.task.status \in SkipTurn THEN End(w)
  ELSE IF w.task.planUndefined THEN PlanTypeError(w, c)
  ELSE IF w.task.plan = <<>> THEN Go(w, At(c, "presenter_empty"))
  ELSE IF ~w.task.tabs THEN Go(w, At(c, "starttab_url"))
  ELSE Go(updateTaskStatus([w EXCEPT !.task.turn = @ + 1], "THINKING"),
          At(c, "observe"))

\* The success branch shared by EXECUTING and WAITING/TEACHING.
stepSucceeded(w, c) ==
  IF w.task.planUndefined
  THEN PlanTypeError([w EXCEPT !.task.lastFailedAction = FALSE,
                               !.task.stepFailureCount = 0], c) ELSE
  runNextTurn(
    [w EXCEPT !.task.lastFailedAction = FALSE,
              !.task.stepFailureCount = 0,
              !.task.currentStep =
                 IF @ + 1 < Len(w.task.plan) THEN @ + 1 ELSE @], c)

\* handleAction has taken its last decision to dispatch: its run dispatches
\* n continuation events in all.
dispatched(w, n) == [w EXCEPT !.events = n]

\* agentOrchestrator('TEXT_EXTRACTED', {text}), awaited inside the try of
\* executeAction.
onTextExtracted(w, c) ==
  IF ~HasTask(w) THEN End(w)
  ELSE IF w.task.status = "EXECUTING"
       THEN runNextTurn(addToScratchpad(w, "log"), [c EXCEPT !.tries = @ + 1])
       ELSE End(w)

\* agentOrchestrator('ACTION_FAILED', {decision}).
onActionFailed(w, c) ==
  IF ~HasTask(w) THEN End(w)
  ELSE CASE w.task.status = "THINKING" ->
              End(updateTaskStatusReason(w, "FAILED", "Manager failed"))
         [] w.task.status = "EXECUTING" -> Go(w, At(c, "fail_tabget"))
         [] OTHER -> End(w)

\* agentOrchestrator('ACTION_COMPLETE') with no payload.
onActionComplete(w, c) ==
  IF ~HasTask(w) THEN End(w)
  ELSE IF w.task.status \in {"EXECUTING", "WAITING", "TEACHING"}
       THEN stepSucceeded(w, c)
       ELSE End(w)

\* pendingCredentialValue = decision.value.  Every capture is a value of its
\* own (a fresh id), so that a stored value tells which capture it came from.
captureCredentialPersisted(w) ==
  [w EXCEPT !.pend = w.nid + 1, !.nid = @ + 1, !.store = @ \cup {w.nid + 1}]
captureCredential(w) == [w EXCEPT !.pend = w.nid + 1, !.nid = @ + 1]

\* The action switch of handleAction, from `switch (decision.action)` to the
\* next await.  c.d is the Manager's action.
actionSwitch(w, c) ==
  CASE c.d \in {"CLICK", "GOTO", "EXTRACT_TEXT"} ->
         IF ~HasTask(w) THEN NullDeref(w, c)
         ELSE IF ~w.task.tabs
              THEN IF c.d = "EXTRACT_TEXT"
                   THEN End(dispatched(addToScratchpad(w, "log"), 0))
                   ELSE onActionFailed(dispatched(addToScratchpad(w, "log"), 1), c)
              ELSE Go(w, At(c, "tab_update"))
    [] c.d = "WAIT" -> Go(addToScratchpad(w, "log"), [At(c, "tabload") EXCEPT !.ok = TRUE])
    [] c.d = "LONG_WAIT" ->
         LET w1 == addToScratchpad(updateTaskStatus(w, "WAITING"), "log")
             w2 == [w1 EXCEPT !.nid = @ + 1,
                              !.timers = @ \cup {[id |-> w.nid + 1, owner |-> w.task.id]}]
         IN  IF ~HasTask(w) THEN NullDeref(w2, c)
             ELSE End([w2 EXCEPT !.task.waitTimeoutId = w.nid + 1])
    [] c.d = "SAVE_CREDENTIAL_VALUE" ->
         End(addToScratchpad(
               updateTaskStatus(captureCredential(w), "AWAITING_CREDENTIAL_NAME"),
               "log"))
    [] c.d \in {"ANSWER", "PARTIAL_SUCCESS"} ->
         IF ~HasTask(w) THEN End(w) ELSE Go(w, At(c, "presenter_answer"))
    [] c.d = "FAIL" ->
         End(IF c.reason # "" THEN updateTaskStatusReason(w, "FAILED", c.reason)
             ELSE updateTaskStatus(w, "FAILED"))
    [] c.d = "HELP_REPLAN" -> handleStuckState(addToScratchpad(w, "log"), c, FALSE)
    [] OTHER -> handleStuckState(addToScratchpad(w, "log"), c, FALSE)

\* handleAction from updateTaskStatus('EXECUTING') on.
beginExecution(w, c) ==
  LET w1 == updateTaskStatus(w, "EXECUTING") IN
  IF ~HasTask(w) THEN NullDeref(w, c)
  ELSE IF c.d = "CLICK" THEN Go(addToScratchpad(w1, "log"), At(c, "pre_tabs"))
  ELSE actionSwitch(addToScratchpad(w1, "log"), c)

\* Navigation with a url goes through the Verifier first.
needsVerification(d) == d \in {"GOTO"}

handleAction(w, c) ==
  IF ~HasTask(w) THEN End(w)
  ELSE IF c.d = "INVALID" THEN handleStuckState(addToScratchpad(w, "log"), c, FALSE)
  ELSE IF needsVerification(c.d)
       THEN Go(addToScratchpad(updateTaskStatus(w, "VERIFYING"), "log"), At(c, "verify"))
       ELSE beginExecution(w, c)

\* agentOrchestrator('ACTION_COMPLETE', decision): the Manager's decision.
onManagerDecision(w, c) ==
  IF ~HasTask(w) THEN End(w)
  ELSE CASE w.task.status = "THINKING" -> handleAction(w, c)
         [] w.task.status \in {"EXECUTING", "WAITING", "TEACHING"} -> stepSucceeded(w, c)
         [] OTHER -> End(w)

\* agentOrchestrator('PLAN_COMPLETE', {plan}).
onPlanComplete(w, c, p) ==
  IF HasTask(w) /\ w.task.status = "PLANNING"
  THEN runNextTurn(addToScratchpad([w EXCEPT !.task.plan = p, !.task.planUndefined = FALSE], "log"), c)
  ELSE End(w)

onPlanFailed(w) ==
  IF HasTask(w) /\ w.task.status = "PLANNING"
  THEN End(updateTaskStatusReason(w, "FAILED", "Planner failed"))
  ELSE End(w)

\* agentOrchestrator('REPLAN_COMPLETE', {plan}).
\* REPLAN_COMPLETE without the reset of currentStep.
onReplanCompleteKeepStep(w, c, p) ==
  IF HasTask(w) /\ w.task.status = "REPLANNING"
  THEN runNextTurn(
         [addToScratchpad([w EXCEPT !.task.plan = p, !.task.planUndefined = FALSE], "log")
            EXCEPT !.task.stepFailureCount = 0, !.task.lastFailedAction = FALSE], c)
  ELSE End(w)
onReplanComplete(w, c, p) ==
  IF HasTask(w) /\ w.task.status = "REPLANNING"
  THEN runNextTurn(
         [addToScratchpad([w EXCEPT !.task.plan = p, !.task.currentStep = 0,
                                    !.task.planUndefined = FALSE], "log")
            EXCEPT !.task.stepFailureCount = 0, !.task.lastFailedAction = FALSE], c)
  ELSE End(w)

\* REPLAN_COMPLETE with a Planner result that has no plan: payload.plan is
\* undefined and is assigned to currentTask.plan.
onReplanCompleteNoPlan(w, c) ==
  IF HasTask(w) /\ w.task.status = "REPLANNING"
  THEN runNextTurn(
         [addToScratchpad([w EXCEPT !.task.plan = <<>>, !.task.currentStep = 0,
                                    !.task.planUndefined = TRUE], "log")
            EXCEPT !.task.stepFailureCount = 0, !.task.lastFailedAction = FALSE], c)
  ELSE End(w)

onReplanFailed(w) ==
  IF HasTask(w) /\ w.task.status = "REPLANNING"
  THEN End(updateTaskStatusReason(w, "FAILED", "Replanning failed"))
  ELSE End(w)

\* agentOrchestrator('RESEARCH_COMPLETE', {decision}) up to isVaultUnlocked().
onResearchComplete(w, c, rb, rv) ==
  IF HasTask(w) /\ w.task.status = "RESEARCHING"
  THEN Go(addToScratchpad([w EXCEPT !.task.researchData = c.tid,
                                    !.task.researcherDecision = TRUE], "log"),
          [At(c, "vaultcheck") EXCEPT !.rb = rb, !.rv = rv])
  ELSE End(w)

\* The planning call both handleUnlockVault and the RESEARCHING case make.
planResult(w, c, o) ==
  IF o.k = "plan" THEN onPlanComplete(w, c, o.p) ELSE onPlanFailed(w)

\* saveHistoricalTask(goal) after its storage read resolved with `snap`.
historyWriteDropped(snap, goal) == Take(snap, HistoryCap)
historyWrite(snap, goal) == Take(<<goal>> \o snap, HistoryCap)

Blank(goal) == goal = ""

\* handleStartTask from `const taskId` to the Triage call.
createTask(w, c, goal) ==
  Go(updateUI([w EXCEPT !.task = NewTask(w.nid + 1, goal), !.nid = @ + 1]),
     [At(c, "triage") EXCEPT !.tid = w.nid + 1])

\* handleStopTask from updateTaskStatus('STOPPED') on.
discardStopped(w) ==
  [updateTaskStatusReason(w, "STOPPED", "stop requested") EXCEPT !.task = NoTask]

\* handleResetTaskSession from `currentTask = null` on.
discardTask(w) == updateUI([w EXCEPT !.task = NoTask])

\* The completion with isPartialSuccess left alone.
completeWithSameFlag(w, c, answer, partial) ==
  IF ~HasTask(w) THEN NullDeref(w, c)
  ELSE LET w1 == updateTaskStatus([w EXCEPT !.task.finalAnswer = answer], "COMPLETED")
       IN  Also(End(w1), saveCompletedTask(w1, c))
\* The task completes with this answer; saveCompletedTask() is fired.
completeWith(w, c, answer, partial) ==
  IF ~HasTask(w) THEN NullDeref(w, c)
  ELSE LET w1 == updateTaskStatus(
                   [w EXCEPT !.task.finalAnswer = answer,
                             !.task.isPartialSuccess = partial], "COMPLETED")
       IN  Also(End(w1), saveCompletedTask(w1, c))

\* researcherDecision.facts.map(f => f.answer).join('\n'): the empty string
\* for an empty list of facts.
joinFacts(facts) == IF facts = <<>> THEN "" ELSE "facts"

\* The RESEARCHING case when the Researcher needs no browser, after the
\* Presenter resolved: its summary is the answer, and when it returned
\* nothing the Researcher's facts are.
directAnswerNoFallback(w, c, o) ==
  IF o.k = "ok" THEN completeWith(w, c, "presenter", FALSE)
  ELSE End(updateTaskStatusReason(w, "FAILED", "Presenter failed"))
directAnswer(w, c, o) ==
  completeWith(w, c, IF o.k = "ok" THEN "presenter" ELSE joinFacts(c.facts), FALSE)

\* The handler of ACTION_FAILED in EXECUTING after chrome.tabs.get resolved
\* with the active tab's host (h = "" when the tab or its url is missing).
recordFailure(w, c, h) ==
  IF ~HasTask(w) THEN NullDeref(w, c)
  ELSE LET w1 == IF h = "" THEN w
                 ELSE addToScratchpad([w EXCEPT !.task.websiteFailures[h] = @ + 1], "log")
           w2 == [w1 EXCEPT !.task.stepFailureCount = @ + 1,
                            !.task.lastFailedAction = TRUE]
       IN  IF w2.task.stepFailureCount >= FailureThreshold
           THEN handleStuckState(addToScratchpad(w2, "log"), c, FALSE)
           ELSE runNextTurn(w2, c)

\* runNextTurn after a start tab was acquired.
startTabAcquired(w, c) ==
  IF ~HasTask(w) THEN NullDeref(w, c)
  ELSE Go(updateTaskStatus([w EXCEPT !.task.tabs = TRUE, !.task.turn = @ + 1], "THINKING"),
          At(c, "observe"))

\* The end of handleStopTeaching: the last check that the task is still the
\* one the handler started with, then COMPLETED and saveCompletedTask().
teachingDone(w, c) ==
  IF w.task.id # c.tid THEN End(w)
  ELSE LET w1 == updateTaskStatus(w, "COMPLETED") IN
       Also(End(w1), saveCompletedTask(w1, c))

\* handleStopTeaching after getTeacherSummaryDecision resolved: the check
\* that the task is still the one the handler started with, the summary
\* (a default text when the Teacher returned nothing), and saveLearnedTool,
\* which returns at once when no action was recorded.
teacherSummarizedUnchecked(w, c, o) ==
  IF ~HasTask(w) THEN NullDeref(w, c)
  ELSE LET w1 == [w EXCEPT !.task.finalAnswer =
                             IF o.k = "ok" THEN "summary" ELSE "nosummary"] IN
       IF w1.task.recordedActions = 0 THEN teachingDone(w1, [c EXCEPT !.tid = w1.task.id])
       ELSE Go(w1, [At(c, "tool_tab") EXCEPT !.g = w1.task.goal])
teacherSummarized(w, c, o) ==
  IF w.task.id # c.tid THEN End(w)
  ELSE LET w1 == [w EXCEPT !.task.finalAnswer =
                             IF o.k = "ok" THEN "summary" ELSE "nosummary"] IN
       IF w1.task.recordedActions = 0 THEN teachingDone(w1, c)
       ELSE Go(w1, [At(c, "tool_tab") EXCEPT !.g = w1.task.goal])

\* getManagerDecision: whatever geminiCall raises, the exhausted capacity
\* of the service (limit) included, is caught and null is returned.
getManagerDecision(o) == IF o.k \in {"null", "limit"} THEN "null" ELSE o.k

\* One suspended chain is resumed: the call it awaits at c.pc resolves with
\* outcome o, and the chain runs to its next await (or to its end).
Resume(w, c, o) ==
  CASE c.pc = "st_hist_get" ->
         IF Has(w.hist, c.g) THEN createTask(w, c, c.ng)
         ELSE Go(w, [At(c, "st_hist_set") EXCEPT !.snap = w.hist])
    [] c.pc = "st_hist_set" ->
         createTask([w EXCEPT !.hist = historyWrite(c.snap, c.g)], c, c.ng)
    [] c.pc = "stop_hist_get" ->
         IF Has(w.hist, c.g) THEN End(discardStopped(w))
         ELSE Go(w, [At(c, "stop_hist_set") EXCEPT !.snap = w.hist])
    [] c.pc = "stop_hist_set" ->
         End(discardStopped([w EXCEPT !.hist = historyWrite(c.snap, c.g)]))
    [] c.pc = "triage" ->
         IF o.k = "Deliberate_Flow"
         THEN Go(addToScratchpad(addToScratchpad(w, "log"), "log"),
                 [At(c, "dl_personas") EXCEPT !.root = "delib"])
         ELSE Go(addToScratchpad(w, "log"), At(c, "preflight"))
    [] c.pc = "preflight" -> Go(addToScratchpad(w, "log"), At(c, "research"))
    [] c.pc = "research" ->
         IF o.k = "throw"
         THEN End(updateTaskStatusReason(w, "FAILED", "Research error"))
         ELSE onResearchComplete(addToScratchpad(w, "log"),
                                 [c EXCEPT !.facts = o.p], o.rb, o.rv)
    [] c.pc = "vaultcheck" ->
         IF c.rv /\ ~w.unlocked
         THEN End(updateTaskStatus(addToScratchpad(w, "log"), "AWAITING_PASSPHRASE"))
         ELSE IF ~HasTask(w) THEN NullDeref(w, c)
         ELSE IF c.rb THEN Go(updateTaskStatus(w, "PLANNING"), At(c, "plan"))
         ELSE Go(w, At(c, "presenter_research"))
    [] c.pc = "plan" -> planResult(w, c, o)
    [] c.pc = "presenter_research" -> directAnswer(w, c, o)
    [] c.pc = "unlock" ->
         IF o.k = "ok"
         THEN LET w1 == [w EXCEPT !.unlocked = TRUE] IN
              IF ~HasTask(w1) THEN NullDeref(w1, c)
              ELSE IF ~w1.task.researcherDecision
                   THEN End(updateTaskStatusReason(addToScratchpad(w1, "log"),
                                                   "FAILED", "Could not resume"))
                   ELSE Go(updateTaskStatus(addToScratchpad(w1, "log"), "PLANNING"),
                           At(c, "plan"))
         ELSE End(addToScratchpad(w, "log"))
    [] c.pc = "cred_save" ->
         IF w.unlocked
         THEN runNextTurn(
                [addToScratchpad([w EXCEPT !.store = @ \cup {c.v}], "log")
                   EXCEPT !.pend = 0], c)
         ELSE End(updateTaskStatusReason(addToScratchpad(w, "log"),
                                         "FAILED", "Could not save credential"))
    [] c.pc = "presenter_empty" ->
         IF o.k = "ok" THEN completeWith(w, c, "presenter", FALSE)
         ELSE End(updateTaskStatusReason(w, "FAILED", "Presenter failed"))
    [] c.pc = "starttab_url" -> Go(addToScratchpad(w, "log"), At(c, "starttab_open"))
    [] c.pc = "starttab_open" ->
         IF o.k = "ok" THEN startTabAcquired(w, c)
         ELSE End(updateTaskStatusReason(w, "FAILED", "No start tab"))
    [] c.pc = "observe" ->
         IF o.k = "ok"
         THEN IF ~HasTask(w) THEN NullDeref(w, c)
              ELSE Go(addToScratchpad(w, "log"), At(c, "tools"))
         ELSE IF HasTask(w) THEN Go(w, At(c, "obs_tabget")) ELSE End(w)
    [] c.pc = "tools" ->
         IF ~HasTask(w) THEN NullDeref(w, c)
         ELSE Go([w EXCEPT !.task.managerCalls =
                             IF c.tid = w.task.id THEN @ + 1 ELSE @],
                 At(c, "manager"))
    [] c.pc = "obs_tabget" ->
         IF ~HasTask(w) THEN NullDeref(w, c)
         ELSE handleStuckState(
                addToScratchpad([w EXCEPT !.task.websiteFailures[o.h] = @ + 1], "log"),
                c, FALSE)
    [] c.pc = "manager" ->
         LET c1 == [c EXCEPT !.tries = @ + 1, !.d = o.d, !.reason = o.reason] IN
         IF getManagerDecision(o) = "null"
         THEN handleStuckState(addToScratchpad(w, "log"), c1, FALSE)
         ELSE onManagerDecision(w, c1)
    [] c.pc = "verify" ->
         IF o.k = "unsafe" THEN onActionFailed(addToScratchpad(w, "log"), c)
         ELSE beginExecution(addToScratchpad(w, "log"), c)
    [] c.pc = "pre_tabs" -> actionSwitch(w, c)
    [] c.pc = "tab_update" ->
         IF ~HasTask(w) THEN NullDeref(w, c) ELSE Go(w, At(c, "exec"))
    [] c.pc = "exec" ->
         IF c.d = "EXTRACT_TEXT"
         THEN IF o.k = "ok" THEN onTextExtracted(dispatched(w, 1), c)
              ELSE End(dispatched(addToScratchpad(w, "log"), 0))
         ELSE IF o.k = "ok" THEN Go(w, [At(c, "tabload") EXCEPT !.ok = TRUE])
         ELSE Go(addToScratchpad(w, "log"), [At(c, "tabload") EXCEPT !.ok = FALSE])
    [] c.pc = "tabload" ->
         IF c.ok THEN onActionComplete(dispatched(w, 1), c)
         ELSE onActionFailed(dispatched(w, 1), c)
    [] c.pc = "fail_tabget" -> recordFailure(w, c, o.h)
    [] c.pc = "replan_ctx" -> buildReplanPrompt(w, c)
    [] c.pc = "replan" ->
         IF o.k = "plan" THEN onReplanComplete(w, c, o.p)
         ELSE IF o.k = "noplan" THEN onReplanCompleteNoPlan(w, c)
         ELSE onReplanFailed(w)
    [] c.pc = "presenter_answer" ->
         IF o.k = "ok" THEN completeWith(w, c, "presenter", c.d = "PARTIAL_SUCCESS")
         ELSE End(updateTaskStatusReason(w, "FAILED", "Presenter failed"))
    [] c.pc = "dl_personas" ->
         IF ~HasTask(w) THEN End(w)
         ELSE IF o.k = "throw"
              THEN End(updateTaskStatusReason(w, "FAILED", "Deliberate error"))
              ELSE Go(addToScratchpad(
                        updateTaskStatus(addToScratchpad(w, "log"), "THINKING"), "log"),
                      At(c, "dl_tables"))
    [] c.pc \in {"dl_tables", "dl_revised"} ->
         IF ~HasTask(w) THEN End(w)
         ELSE IF o.k = "throw"
              THEN End(updateTaskStatusReason(w, "FAILED", "Deliberate error"))
              ELSE Go(addToScratchpad(addToScratchpad(w, "log"), "log"),
                      At(c, IF c.pc = "dl_tables" THEN "dl_revised" ELSE "dl_consensus"))
    [] c.pc = "dl_consensus" ->
         IF ~HasTask(w) THEN End(w)
         ELSE IF o.k = "throw"
              THEN End(updateTaskStatusReason(w, "FAILED", "Deliberate error"))
              ELSE completeWith(
                     [addToScratchpad(w, "log") EXCEPT !.task.plan = o.p, !.task.planUndefined = FALSE,
                                                       !.task.isDeliberatePlan = TRUE],
                     c, "consensus", w.task.isPartialSuccess)
    [] c.pc = "sc_get" ->
         IF ~HasTask(w) THEN NullDeref(w, c)
         ELSE Go(w, [At(c, "sc_set") EXCEPT !.snap = w.done, !.g = w.task.goal])
    [] c.pc = "sc_set" ->
         LET w1 == [w EXCEPT !.done = Take(<<c.g>> \o c.snap, CompletedCap)] IN
         IF ~HasTask(w1) THEN NullDeref(w1, c)
         ELSE IF Blank(w1.task.goal) THEN End(w1)
         ELSE Go(w1, [At(c, "sh_get") EXCEPT !.g = w1.task.goal])
    [] c.pc = "sh_get" ->
         IF Has(w.hist, c.g) THEN End(w)
         ELSE Go(w, [At(c, "sh_set") EXCEPT !.snap = w.hist])
    [] c.pc = "sh_set" -> End([w EXCEPT !.hist = historyWrite(c.snap, c.g)])
    [] c.pc = "teach_tab" ->
         IF o.k # "ok" THEN End(updateUI(w))
         ELSE IF ~HasTask(w) THEN NullDeref(w, c)
         ELSE End(updateUI([w EXCEPT !.task.tabs = TRUE]))
    [] c.pc = "teach_summary" -> teacherSummarized(w, c, o)
    [] c.pc = "tool_tab" ->
         IF o.k = "ok" THEN Go(w, At(c, "tool_get")) ELSE teachingDone(w, c)
    [] c.pc = "tool_get" -> Go(w, [At(c, "tool_set") EXCEPT !.snap = w.tools])
    [] c.pc = "tool_set" ->
         teachingDone([w EXCEPT !.tools = Take(Append(c.snap, c.g), ToolsCap)], c)
    [] c.pc = "la_tabget" ->
         IF o.k # "ok" THEN End([w EXCEPT !.unh = TRUE])
         ELSE IF ~HasTask(w) THEN NullDeref(w, c)
         ELSE Go(w, [At(c, "la_get") EXCEPT !.g = w.task.goal])
    [] c.pc = "la_get" -> Go(w, [At(c, "la_set") EXCEPT !.snap = w.tools])
    [] c.pc = "la_set" ->
         End([w EXCEPT !.tools = Take(Append(c.snap, c.g), ToolsCap)])

\* ------------------------------------------------------------ environment
\* What an awaited call can resolve with.  k is the kind of result, p a plan,
\* h the host of the active tab, d the Manager's action, rb/rv the
\* Researcher's requires_browser / requires_vault.
O(k) ==
  [k |-> k, p |-> <<>>, h |-> "", d |-> "", reason |-> "", rb |-> FALSE,
   rv |-> FALSE]

\* The lists of facts the Researcher can answer with.
ResearchFacts(P) ==
  {<<"fact">>} \cup (IF "research_facts" \in P.fails THEN {<<>>} ELSE {})

MayFail(P, c) == IF c.pc \in P.fails THEN {O("fail")} ELSE {}

\* The plans the Planner can answer a replan with.  Its prompt lists the
\* hosts that failed three times and forbids them only when the replan is
\* not user-initiated; c.excl holds those hosts.
ReplanPlans(P, c) ==
  {p \in P.plans : \A i \in 1..Len(p) : p[i] \notin c.excl}

\* The reason of a Manager decision, an optional field of its JSON.
ManagerReasons(P) ==
  {"Manager reason"} \cup (IF "manager_reason" \in P.fails THEN {""} ELSE {})

Outcomes(P, c) ==
  CASE c.pc = "triage" -> {O(k) : k \in P.triage}
    [] c.pc = "research" ->
         {[O("ok") EXCEPT !.rb = r[1], !.rv = r[2], !.p = f] :
            r \in P.research, f \in ResearchFacts(P)}
           \cup (IF "research" \in P.fails THEN {O("throw")} ELSE {})
    [] c.pc = "plan" ->
         {[O("plan") EXCEPT !.p = p] : p \in P.plans}
           \cup (IF "plan" \in P.fails THEN {O("null")} ELSE {})
           \cup (IF "noplan" \in P.fails THEN {O("noplan")} ELSE {})
    [] c.pc = "replan" ->
         {[O("plan") EXCEPT !.p = p] : p \in ReplanPlans(P, c)}
           \cup (IF "replan" \in P.fails THEN {O("null")} ELSE {})
           \cup (IF "noplan" \in P.fails THEN {O("noplan")} ELSE {})
    [] c.pc = "manager" ->
         {[O("ok") EXCEPT !.d = d, !.reason = r] :
            d \in P.mgr, r \in ManagerReasons(P)}
           \cup (IF "manager" \in P.fails THEN {O("null")} ELSE {})
           \cup (IF "manager_limit" \in P.fails THEN {O("limit")} ELSE {})
    [] c.pc = "verify" ->
         {O("safe")} \cup (IF "verify" \in P.fails THEN {O("unsafe")} ELSE {})
    [] c.pc \in {"dl_personas", "dl_tables", "dl_revised"} ->
         {O("ok")} \cup (IF c.pc \in P.fails THEN {O("throw")} ELSE {})
    [] c.pc = "dl_consensus" ->
         {[O("ok") EXCEPT !.p = p] : p \in P.plans}
           \cup (IF c.pc \in P.fails THEN {O("throw")} ELSE {})
    [] c.pc = "obs_tabget" -> {[O("ok") EXCEPT !.h = h] : h \in Hosts}
    [] c.pc = "fail_tabget" ->
         {[O("ok") EXCEPT !.h = h] : h \in Hosts}
           \cup (IF "fail_tabget" \in P.fails THEN {O("ok")} ELSE {})
    [] OTHER -> {O("ok")} \cup MayFail(P, c)

ModelCalls ==
  {"triage", "preflight", "research", "plan", "replan", "manager", "verify",
   "presenter_research", "presenter_empty", "presenter_answer",
   "dl_personas", "dl_tables", "dl_revised", "dl_consensus", "teach_summary"}
BrowserCalls ==
  {"starttab_url", "starttab_open", "observe", "obs_tabget", "pre_tabs",
   "tab_update", "exec", "tabload", "fail_tabget", "teach_tab", "tool_tab",
   "la_tabget"}
StorageCalls ==
  {"st_hist_get", "st_hist_set", "stop_hist_get", "stop_hist_set", "sc_get",
   "sc_set", "sh_get", "sh_set", "vaultcheck", "unlock", "cred_save",
   "replan_ctx", "tools", "tool_get", "tool_set", "la_get", "la_set"}

\* ---------------------------------------------------------------- actions
BagOf(th) ==
  IF th = <<>> THEN EmptyBag
  ELSE IF Len(th) = 1 THEN SetToBag({th[1]})
  ELSE SetToBag({th[1]}) (+) SetToBag({th[2]})

Install(r) ==
  /\ task' = r.w.task
  /\ pendingCredentialValue' = r.w.pend
  /\ timers' = r.w.timers
  /\ historicalTasks' = r.w.hist
  /\ completedTasks' = r.w.done
  /\ vaultUnlocked' = r.w.unlocked
  /\ vaultStore' = r.w.store
  /\ learnedTools' = r.w.tools
  /\ nextId' = r.w.nid
  /\ unhandled' = r.w.unh
  /\ shown' = r.w.shown

\* The id of the timer a handler cleared (0 when it cleared none).
Cancelled(r) ==
  LET gone == timers \ r.w.timers IN
  IF gone = {} THEN 0 ELSE (CHOOSE t \in gone : TRUE).id

\* The listener receives a control event and the handler runs to its first
\* await.
Receive(P, name, r) ==
  /\ nEvents < P.maxEvents
  /\ r.w.task.turn <= P.maxTurn
  /\ Install(r)
  /\ chains' = chains (+) BagOf(r.th)
  /\ nEvents' = nEvents + 1
  /\ call' = call
  /\ disk' = disk
  /\ last' = [op |-> name, out |-> "", by |-> 0, t |-> Cancelled(r), fs |-> 0, d |-> "",
            events |-> r.w.events]

\* An awaited call of one of the kinds in pcs resolves.
Resolves(P, pcs) ==
  \E c \in BagToSet(chains) :
    /\ c.pc \in pcs
    /\ \E o \in Outcomes(P, c) :
         LET r == Resume(World, c, o) IN
         /\ r.w.task.turn <= P.maxTurn
         /\ Install(r)
         /\ chains' = (chains (-) SetToBag({c})) (+) BagOf(r.th)
         /\ nEvents' = nEvents
         /\ call' = call
         /\ disk' = disk
         /\ last' = [op |-> c.pc, out |-> o.k, by |-> c.tid, t |-> 0, fs |-> c.fs,
                      d |-> IF o.d # "" THEN o.d ELSE c.d, events |-> r.w.events]

keepWaitTimer(w) == w
clearWaitTimer(w) ==
  IF HasTask(w) /\ w.task.waitTimeoutId # 0
  THEN [w EXCEPT !.timers = {t \in @ : t.id # w.task.waitTimeoutId},
                 !.task.waitTimeoutId = 0]
  ELSE w

handleStartTask(w, goal) ==
  IF HasTask(w) /\ w.task.status = "USER_INPUT_PENDING" /\ ~Blank(w.task.goal)
  THEN Go(w, [Chain("st_hist_get", 0, "start") EXCEPT !.g = w.task.goal, !.ng = goal])
  ELSE createTask(w, Chain("", 0, "start"), goal)

handleStopTask(w) ==
  IF ~HasTask(w) THEN End(w)
  ELSE LET w1 == clearWaitTimer(w) IN
       IF w1.task.status = "USER_INPUT_PENDING" /\ ~Blank(w1.task.goal)
       THEN Go(w1, [Chain("stop_hist_get", w1.task.id, "stop") EXCEPT !.g = w1.task.goal])
       ELSE End(discardStopped(w1))

\* handleResetTaskSession without its `if (currentTask)` guard: with no task
\* the read of currentTask.waitTimeoutId raises.
resetWithoutGuard(w) ==
  IF ~HasTask(w) THEN End([w EXCEPT !.unh = TRUE])
  ELSE End(discardTask(clearWaitTimer(w)))
handleResetTaskSession(w) ==
  IF ~HasTask(w) THEN End(w) ELSE End(discardTask(clearWaitTimer(w)))

\* chrome.tabs.sendMessage(tabId, ...) with the task's active tab: with no
\* tab the id is undefined, the call raises, and the handler ends there in a
\* rejection nobody handles.
sendToActiveTab(w) == IF w.task.tabs THEN w ELSE [w EXCEPT !.unh = TRUE]

handleTakeOver(w) ==
  IF ~HasTask(w) THEN End(w)
  ELSE End(sendToActiveTab(
             updateTaskStatusReason([w EXCEPT !.task.isTraining = TRUE],
                                    "USER_INPUT_PENDING", "Waiting for user")))

handleStartTeaching(w, goal) ==
  Go([w EXCEPT !.task = [NewTask(w.nid + 1, goal) EXCEPT
                           !.status = "TEACHING", !.isTraining = TRUE],
               !.nid = @ + 1],
     Chain("teach_tab", w.nid + 1, "teach"))

handleStopTeaching(w) ==
  IF ~HasTask(w) \/ w.task.status # "TEACHING" THEN End(w)
  ELSE Go(addToScratchpad(w, "log"), Chain("teach_summary", w.task.id, "stopteach"))

\* handleRecordedAction; saveLearnedAction is fired, not awaited.
handleRecordedAction(w) ==
  IF ~HasTask(w) THEN End(w)
  ELSE LET learn == w.task.isTraining /\ w.task.status = "USER_INPUT_PENDING"
           w1 == IF learn THEN addToScratchpad(w, "log") ELSE w
           w2 == IF w1.task.status = "TEACHING"
                 THEN addToScratchpad([w1 EXCEPT !.task.recordedActions = @ + 1], "log")
                 ELSE w1
       IN  IF ~learn THEN End(w2)
           ELSE IF ~w2.task.tabs THEN End([w2 EXCEPT !.unh = TRUE])
           ELSE Go(w2, Chain("la_tabget", w.task.id, "learn"))

handleGoAutonomous(w) ==
  IF ~HasTask(w) THEN End(w)
  ELSE LET w1 == addToScratchpad([w EXCEPT !.task.isTraining = FALSE], "log") IN
       IF ~w1.task.tabs THEN End(sendToActiveTab(w1))
       ELSE handleStuckState(w1, Chain("", w.task.id, "none"), TRUE)

attemptStrategy(w, p) ==
  IF ~HasTask(w) THEN End(w)
  ELSE onPlanComplete(
         updateTaskStatus([w EXCEPT !.task.isDeliberatePlan = TRUE,
                                    !.task.finalAnswer = "",
                                    !.task.plan = p, !.task.planUndefined = FALSE], "PLANNING"),
         Chain("", w.task.id, "none"), p)

handleUnlockVault(w) ==
  IF ~HasTask(w) THEN End(w) ELSE Go(w, Chain("unlock", w.task.id, "none"))

handleSaveCredential(w) ==
  IF HasTask(w) /\ w.task.status = "AWAITING_CREDENTIAL_NAME" /\ w.pend # 0
  THEN Go(w, [Chain("cred_save", w.task.id, "cred") EXCEPT !.v = w.pend])
  ELSE End(addToScratchpad(w, "log"))

\* The setTimeout callback of LONG_WAIT.
waitElapsed(w, t) ==
  LET w1 == [w EXCEPT !.timers = @ \ {t}] IN
  IF HasTask(w1) /\ w1.task.status = "WAITING"
  THEN onActionComplete(
         [addToScratchpad(w1, "log") EXCEPT !.task.waitTimeoutId = 0],
         Chain("", t.owner, "none"))
  ELSE End(w1)

StartTask(P) == \E g \in P.goals : Receive(P, "START_TASK", handleStartTask(World, g))
StopTask(P) == Receive(P, "STOP_TASK", handleStopTask(World))
ResetTaskSession(P) == Receive(P, "RESET_TASK_SESSION", handleResetTaskSession(World))
TakeOver(P) == Receive(P, "TAKE_OVER", handleTakeOver(World))
GoAutonomous(P) == Receive(P, "GO_AUTONOMOUS", handleGoAutonomous(World))
AttemptStrategy(P) ==
  \E p \in P.plans : Receive(P, "ATTEMPT_STRATEGY", attemptStrategy(World, p))
UnlockVault(P) == Receive(P, "UNLOCK_VAULT", handleUnlockVault(World))
SaveCredential(P) == Receive(P, "SAVE_CREDENTIAL", handleSaveCredential(World))
StartTeaching(P) ==
  \E g \in P.goals : Receive(P, "START_TEACHING", handleStartTeaching(World, g))
StopTeaching(P) == Receive(P, "STOP_TEACHING", handleStopTeaching(World))
RecordedAction(P) == Receive(P, "RECORDED_ACTION", handleRecordedAction(World))
ModelResolves(P) == Resolves(P, ModelCalls)
BrowserResolves(P) == Resolves(P, BrowserCalls)
StorageResolves(P) == Resolves(P, StorageCalls)
TimerFires(P) ==
  \E t \in timers :
    LET r == waitElapsed(World, t) IN
    /\ r.w.task.turn <= P.maxTurn
    /\ Install(r)
    /\ chains' = chains (+) BagOf(r.th)
    /\ nEvents' = nEvents
    /\ call' = call
    /\ disk' = disk
    /\ last' = [op |-> "timer", out |-> "", by |-> t.owner, t |-> t.id, fs |-> 0,
               d |-> "", events |-> -1]

\* ------------------------------------------------------------ geminiCall
\* One call of the decision service, step by step.  A fetch resolves with a
\* success status (ok), with 429 or 503 (busy), with another status
\* (http_other), or rejects: aborted by the 90 s timer (timeout) or for any
\* other reason (network).
FetchOutcomes == {"ok", "busy", "timeout", "network", "http_other"}

\* What a successful response carries: text that parses as JSON (valid), JSON
\* wrapped in other text (wrapped), text with no parsable JSON in it
\* (text_bad), no text part (no_text), or a body that is not JSON at all
\* (envelope_bad).
Payloads == {"valid", "wrapped", "text_bad", "no_text", "envelope_bad"}

NoCall ==
  [phase |-> "none", expectJson |-> FALSE, depth |-> 0, attempt |-> 0,
   delays |-> 0, repairs |-> 0, outcome |-> "", payload |-> ""]

\* geminiCall(prompt, useTool, model, expectJson) up to its first await, the
\* read of the API key.
geminiCall(expectJson) == [NoCall EXCEPT !.phase = "key", !.expectJson = expectJson]

\* The catch of the retry loop: the error is raised on the last attempt,
\* otherwise the loop sleeps and goes round.
catchAttempt(cl, o) ==
  IF cl.attempt >= MaxRetries THEN [cl EXCEPT !.phase = "raised", !.outcome = o]
  ELSE [cl EXCEPT !.phase = "backoff", !.delays = @ + 1, !.outcome = o]

\* The fetch of an attempt resolved: 429 and 503 are thrown into the catch,
\* where every rejection of fetch lands too; any other error status leaves
\* the loop.
fetchResolvedRetryAll(cl, o) ==
  IF o = "ok" THEN [cl EXCEPT !.phase = "text", !.outcome = o]
  ELSE catchAttempt(cl, o)
fetchResolved(cl, o) ==
  IF o = "ok" THEN [cl EXCEPT !.phase = "text", !.outcome = o]
  ELSE IF o = "http_other" THEN [cl EXCEPT !.phase = "errbody", !.outcome = o]
  ELSE catchAttempt(cl, o)

\* The self-healing branch: a second geminiCall for the same service, with
\* expectJson = false, begins.
selfHeal(cl) ==
  [cl EXCEPT !.phase = "key", !.depth = 1, !.repairs = @ + 1, !.attempt = 0]

\* The body of a successful response was read: the parse, the local repair
\* (which raises a plain Error when it fails) and the outer catch, which
\* starts the self-healing for a SyntaxError only, that is when the body
\* itself is not JSON.  In the secondary call (depth 1) the text is returned
\* and the outermost brackets are parsed once.
parseResponse(cl, p) ==
  LET c1 == [cl EXCEPT !.payload = p] IN
  IF cl.depth = 1
  THEN [c1 EXCEPT !.phase = IF p \in {"valid", "wrapped"} THEN "returned" ELSE "raised"]
  ELSE IF ~cl.expectJson
       THEN [c1 EXCEPT !.phase = IF p \in {"valid", "wrapped", "text_bad"}
                                 THEN "returned" ELSE "raised"]
       ELSE IF p = "envelope_bad" THEN selfHeal(c1)
       ELSE [c1 EXCEPT !.phase = IF p \in {"valid", "wrapped"}
                                 THEN "returned" ELSE "raised"]

Program ==
  <<task, pendingCredentialValue, chains, timers, historicalTasks,
    completedTasks, vaultUnlocked, vaultStore, learnedTools, nextId, nEvents,
    unhandled, disk, shown, last>>

\* chrome.storage.sync.get('googleApiKey') resolved.
CallKey ==
  /\ call.phase = "key"
  /\ \E key \in BOOLEAN :
       call' = IF key THEN [call EXCEPT !.phase = "fetch", !.attempt = 1]
               ELSE [call EXCEPT !.phase = "raised", !.outcome = "no_key"]
  /\ UNCHANGED Program

CallFetch ==
  /\ call.phase = "fetch"
  /\ \E o \in FetchOutcomes : call' = fetchResolved(call, o)
  /\ UNCHANGED Program

\* response.text() of a successful response resolved, or rejected.
CallText ==
  /\ call.phase = "text"
  /\ \/ \E p \in Payloads : call' = parseResponse(call, p)
     \/ call' = catchAttempt(call, "body")
  /\ UNCHANGED Program

\* The body of the error response was read; the call raises.
CallErrBody ==
  /\ call.phase = "errbody"
  /\ call' = [call EXCEPT !.phase = "raised"]
  /\ UNCHANGED Program

\* The backoff delay elapsed: the next attempt starts.
CallBackoff ==
  /\ call.phase = "backoff"
  /\ call' = [call EXCEPT !.phase = "fetch", !.attempt = @ + 1]
  /\ UNCHANGED Program

\* ------------------------------------------------- the persisted lists
\* saveHistoricalTask() and saveCompletedTask() on their own: the two lists
\* of chrome.storage.local with the timestamps of their entries, the clock
\* Date.now() reads, and the saves in flight (ops), each suspended at its
\* storage read ("get") or at its storage write ("set").  Goals are numbers
\* here; 0 is the blank goal.
Entry(goal, timestamp) == [goal |-> goal, timestamp |-> timestamp]

\* What earlier sessions left in the store: n entries, written in order.
StoredHistory(n) == [i \in 1..n |-> Entry(n + 1 - i, 0)]
StoredCompleted(n) == [i \in 1..n |-> Entry(1, 0)]

NoDisk == [hist |-> <<>>, done |-> <<>>, clock |-> 0, ops |-> {}, started |-> 0]

StoreGoals == {0, 1, HistoryCap + 1, HistoryCap + 2}

\* [new, ...list] without a slice.
newestFirstUncut(new, list, cap) == <<new>> \o list
\* [new, ...list].slice(0, cap)
newestFirst(new, list, cap) == Take(<<new>> \o list, cap)

goalExists(list, goal) == \E i \in 1..Len(list) : list[i].goal = goal

SaveOp(id, fn, pc, goal) ==
  [id |-> id, fn |-> fn, pc |-> pc, goal |-> goal, updated |-> <<>>]

StoreFrame ==
  <<task, pendingCredentialValue, chains, timers, historicalTasks,
    completedTasks, vaultUnlocked, vaultStore, learnedTools, nextId, nEvents,
    unhandled, call, shown, last>>

\* saveHistoricalTask(goal) is called: a blank goal returns at once.
SaveHistoricalStart ==
  /\ disk.started < StoreMaxSaves
  /\ \E g \in StoreGoals :
       disk' = [disk EXCEPT
                  !.started = @ + 1,
                  !.ops = IF g = 0 THEN @
                          ELSE @ \cup {SaveOp(disk.started + 1, "hist", "get", g)}]
  /\ UNCHANGED StoreFrame

\* saveCompletedTask() is called for a task with a final answer.
SaveCompletedStart ==
  /\ disk.started < StoreMaxSaves
  /\ \E g \in StoreGoals :
       disk' = [disk EXCEPT
                  !.started = @ + 1,
                  !.ops = @ \cup {SaveOp(disk.started + 1, "done", "get", g)}]
  /\ UNCHANGED StoreFrame

\* The read of a save resolves: the new list is built from what was read.
StoreRead ==
  /\ \E op \in disk.ops :
       /\ op.pc = "get"
       /\ LET new == Entry(op.goal, disk.clock)
              rest == disk.ops \ {op}
          IN  IF op.fn = "hist"
              THEN IF goalExists(disk.hist, op.goal)
                   THEN disk' = [disk EXCEPT !.ops = rest]
                   ELSE disk' = [disk EXCEPT !.ops = rest \cup
                                  {[op EXCEPT !.pc = "set",
                                     !.updated = newestFirst(new, disk.hist, HistoryCap)]}]
              ELSE disk' = [disk EXCEPT !.ops = rest \cup
                             {[op EXCEPT !.pc = "set",
                                !.updated = newestFirst(new, disk.done, CompletedCap)]}]
  /\ UNCHANGED StoreFrame

\* The write of a save resolves; saveCompletedTask() goes on with
\* saveHistoricalTask() for the same goal.
StoreWrite ==
  /\ \E op \in disk.ops :
       /\ op.pc = "set"
       /\ LET rest == disk.ops \ {op} IN
          IF op.fn = "hist"
          THEN disk' = [disk EXCEPT !.hist = op.updated, !.ops = rest]
          ELSE disk' = [disk EXCEPT
                          !.done = op.updated,
                          !.ops = IF op.goal = 0 THEN rest
                                  ELSE rest \cup {SaveOp(op.id, "hist", "get", op.goal)}]
  /\ UNCHANGED StoreFrame

\* Time passes.
ClockTick ==
  /\ disk.clock < StoreMaxClock
  /\ disk' = [disk EXCEPT !.clock = @ + 1]
  /\ UNCHANGED StoreFrame

Init ==
  /\ call = NoCall
  /\ disk = NoDisk
  /\ shown = Snapshot(NoTask)
  /\ task = NoTask
  /\ pendingCredentialValue = 0
  /\ chains = EmptyBag
  /\ timers = {}
  /\ historicalTasks = <<>>
  /\ completedTasks = <<>>
  /\ vaultUnlocked = FALSE
  /\ vaultStore = {}
  /\ learnedTools = <<>>
  /\ nextId = 0
  /\ nEvents = 0
  /\ unhandled = FALSE
  /\ last = [op |-> "init", out |-> "", by |-> 0, t |-> 0, fs |-> 0, d |-> "",
          events |-> -1]

\* Two tasks racing: START_TASK, STOP_TASK, RESET_TASK_SESSION and TAKE_OVER
\* arrive in any order while earlier handlers are suspended.  The one turn
\* is a navigation, which the Verifier may reject.
RaceP ==
  [maxEvents |-> RaceMaxEvents, maxTurn |-> RaceMaxTurn, goals |-> {"g1", "g2"},
   triage |-> {"Standard_Flow"}, research |-> {<<TRUE, FALSE>>},
   plans |-> {<<"h1">>}, mgr |-> {"GOTO"}, fails |-> {"verify"}]

Next ==
  \/ StartTask(RaceP)
  \/ StopTask(RaceP)
  \/ ResetTaskSession(RaceP)
  \/ TakeOver(RaceP)
  \/ ModelResolves(RaceP)
  \/ BrowserResolves(RaceP)
  \/ StorageResolves(RaceP)

Spec == Init /\ [][Next]_vars

\* One task in the turn loop, with actions that fail, and one more control
\* event: ATTEMPT_STRATEGY, UNLOCK_VAULT or GO_AUTONOMOUS.
TurnP ==
  [maxEvents |-> TurnMaxEvents, maxTurn |-> TurnMaxTurn, goals |-> {"g1"},
   triage |-> {"Standard_Flow"}, research |-> {<<TRUE, FALSE>>},
   plans |-> {<<"h1">>, <<"elsewhere", "elsewhere">>},
   mgr |-> {"CLICK"}, fails |-> {"exec"}]

NextTurn ==
  \/ StartTask(TurnP)
  \/ AttemptStrategy(TurnP)
  \/ UnlockVault(TurnP)
  \/ GoAutonomous(TurnP)
  \/ ModelResolves(TurnP)
  \/ BrowserResolves(TurnP)
  \/ StorageResolves(TurnP)

SpecTurn == Init /\ [][NextTurn]_vars

\* A task that needs the vault (it passes through AWAITING_PASSPHRASE) and
\* whose turns end in a long wait or in a captured credential, with
\* START_TASK, STOP_TASK, UNLOCK_VAULT and SAVE_CREDENTIAL arriving at any
\* time.
WaitP ==
  [maxEvents |-> WaitMaxEvents, maxTurn |-> WaitMaxTurn, goals |-> {"g1"},
   triage |-> {"Standard_Flow"}, research |-> {<<TRUE, TRUE>>},
   plans |-> {<<"h1">>},
   mgr |-> {"LONG_WAIT", "SAVE_CREDENTIAL_VALUE"}, fails |-> {}]

NextWait ==
  \/ StartTask(WaitP)
  \/ StopTask(WaitP)
  \/ UnlockVault(WaitP)
  \/ SaveCredential(WaitP)
  \/ TimerFires(WaitP)
  \/ ModelResolves(WaitP)
  \/ BrowserResolves(WaitP)
  \/ StorageResolves(WaitP)

SpecWait == Init /\ [][NextWait]_vars

\* A question the Researcher answers without the browser (with or without
\* needing the vault), a Presenter that may return nothing, and START_TASK,
\* STOP_TASK, TAKE_OVER and GO_AUTONOMOUS arriving at any time.
AnswerP ==
  [maxEvents |-> AnswerMaxEvents, maxTurn |-> AnswerMaxTurn, goals |-> {"g1", "g2"},
   triage |-> {"Standard_Flow"}, research |-> {<<FALSE, FALSE>>, <<FALSE, TRUE>>},
   plans |-> {<<"h1">>}, mgr |-> {"CLICK"}, fails |-> {"presenter_research"}]

NextAnswer ==
  \/ StartTask(AnswerP)
  \/ StopTask(AnswerP)
  \/ TakeOver(AnswerP)
  \/ GoAutonomous(AnswerP)
  \/ ModelResolves(AnswerP)
  \/ StorageResolves(AnswerP)

SpecAnswer == Init /\ [][NextAnswer]_vars

\* A teaching session: START_TEACHING, recorded actions and STOP_TEACHING,
\* with STOP_TASK or another START_TEACHING arriving at any time and a
\* Teacher that may return nothing.
TeachP ==
  [maxEvents |-> TeachMaxEvents, maxTurn |-> TeachMaxTurn, goals |-> {"g1"},
   triage |-> {"Standard_Flow"}, research |-> {<<FALSE, FALSE>>},
   plans |-> {<<"h1">>}, mgr |-> {"CLICK"}, fails |-> {"teach_summary"}]

NextTeach ==
  \/ StartTeaching(TeachP)
  \/ RecordedAction(TeachP)
  \/ StopTeaching(TeachP)
  \/ StopTask(TeachP)
  \/ ModelResolves(TeachP)
  \/ BrowserResolves(TeachP)
  \/ StorageResolves(TeachP)

SpecTeach == Init /\ [][NextTeach]_vars

\* A task the triage sends to the debate flow, with START_TEACHING,
\* START_TASK, TAKE_OVER and GO_AUTONOMOUS arriving at any time, and no
\* ATTEMPT_STRATEGY at all.
DebateP ==
  [maxEvents |-> DebateMaxEvents, maxTurn |-> DebateMaxTurn, goals |-> {"g1"},
   triage |-> {"Deliberate_Flow"}, research |-> {<<TRUE, FALSE>>},
   plans |-> {<<"h1">>}, mgr |-> {"CLICK"}, fails |-> {}]

NextDebate ==
  \/ StartTeaching(DebateP)
  \/ StartTask(DebateP)
  \/ TakeOver(DebateP)
  \/ GoAutonomous(DebateP)
  \/ ModelResolves(DebateP)
  \/ BrowserResolves(DebateP)
  \/ StorageResolves(DebateP)

SpecDebate == Init /\ [][NextDebate]_vars

\* One task whose turn-loop calls may each fail: the start tab, the
\* observation, the Manager (with a malformed answer or with the service's
\* capacity exhausted) and the execution of the action.
FailP ==
  [maxEvents |-> FailMaxEvents, maxTurn |-> FailMaxTurn, goals |-> {"g1"},
   triage |-> {"Standard_Flow"}, research |-> {<<TRUE, FALSE>>},
   plans |-> {<<"h1">>}, mgr |-> {"CLICK"},
   fails |-> {"starttab_open", "observe", "manager", "manager_limit", "exec"}]

NextFail ==
  \/ StartTask(FailP)
  \/ StopTask(FailP)
  \/ ModelResolves(FailP)
  \/ BrowserResolves(FailP)
  \/ StorageResolves(FailP)

SpecFail == Init /\ [][NextFail]_vars

\* Tasks whose Manager ends them: ANSWER, PARTIAL_SUCCESS or FAIL (with or
\* without a reason) besides a click, and a Presenter that may return
\* nothing; START_TASK, STOP_TASK and TAKE_OVER arrive at any time.
EndP ==
  [maxEvents |-> EndMaxEvents, maxTurn |-> EndMaxTurn, goals |-> {"g1"},
   triage |-> {"Standard_Flow"}, research |-> {<<TRUE, FALSE>>},
   plans |-> {<<"h1">>}, mgr |-> {"CLICK", "ANSWER", "PARTIAL_SUCCESS", "FAIL"},
   fails |-> {"presenter_answer", "manager_reason"}]

NextEnd ==
  \/ StartTask(EndP)
  \/ StopTask(EndP)
  \/ TakeOver(EndP)
  \/ ModelResolves(EndP)
  \/ BrowserResolves(EndP)
  \/ StorageResolves(EndP)

SpecEnd == Init /\ [][NextEnd]_vars

\* Tasks that may or may not need the vault and whose Manager captures a
\* credential; the vault may refuse the passphrase. START_TASK, UNLOCK_VAULT
\* and SAVE_CREDENTIAL arrive at any time.
VaultP ==
  [maxEvents |-> VaultMaxEvents, maxTurn |-> VaultMaxTurn, goals |-> {"g1"},
   triage |-> {"Standard_Flow"}, research |-> {<<TRUE, FALSE>>, <<TRUE, TRUE>>},
   plans |-> {<<"h1">>}, mgr |-> {"SAVE_CREDENTIAL_VALUE"},
   fails |-> {"unlock"}]

NextVault ==
  \/ StartTask(VaultP)
  \/ UnlockVault(VaultP)
  \/ SaveCredential(VaultP)
  \/ ModelResolves(VaultP)
  \/ BrowserResolves(VaultP)
  \/ StorageResolves(VaultP)

SpecVault == Init /\ [][NextVault]_vars

\* Saves of the two persisted lists in any order and overlap, over a store
\* that is empty, one short of full, or full.
InitStore ==
  /\ call = NoCall
  /\ \E h \in {0, HistoryCap - 1, HistoryCap}, d \in {0, CompletedCap - 1, CompletedCap} :
       disk = [NoDisk EXCEPT !.hist = StoredHistory(h), !.done = StoredCompleted(d)]
  /\ shown = Snapshot(NoTask)
  /\ task = NoTask
  /\ pendingCredentialValue = 0
  /\ chains = EmptyBag
  /\ timers = {}
  /\ historicalTasks = <<>>
  /\ completedTasks = <<>>
  /\ vaultUnlocked = FALSE
  /\ vaultStore = {}
  /\ learnedTools = <<>>
  /\ nextId = 0
  /\ nEvents = 0
  /\ unhandled = FALSE
  /\ last = [op |-> "init", out |-> "", by |-> 0, t |-> 0, fs |-> 0, d |-> "",
          events |-> -1]

NextStore ==
  \/ SaveHistoricalStart
  \/ SaveCompletedStart
  \/ StoreRead
  \/ StoreWrite
  \/ ClockTick

SpecStore == InitStore /\ [][NextStore]_vars

\* Tasks and teaching sessions that are started, stopped and reset, with
\* every awaited call answered in the end: the calls of the decision
\* service, of the browser and of the storage have their own timeouts or
\* always call back, while no event of the user is ever bound to come.
ShowP ==
  [maxEvents |-> ShowMaxEvents, maxTurn |-> ShowMaxTurn, goals |-> {"g1"},
   triage |-> {"Standard_Flow"}, research |-> {<<TRUE, FALSE>>},
   plans |-> {<<"h1">>}, mgr |-> {"ANSWER"}, fails |-> {}]

NextShow ==
  \/ StartTask(ShowP)
  \/ StartTeaching(ShowP)
  \/ StopTask(ShowP)
  \/ ResetTaskSession(ShowP)
  \/ ModelResolves(ShowP)
  \/ BrowserResolves(ShowP)
  \/ StorageResolves(ShowP)

SpecShow ==
  /\ Init
  /\ [][NextShow]_vars
  /\ WF_vars(ModelResolves(ShowP))
  /\ WF_vars(BrowserResolves(ShowP))
  /\ WF_vars(StorageResolves(ShowP))

\* One task whose Manager clicks, waits or extracts text, with actions that
\* may fail.
ActP ==
  [maxEvents |-> ActMaxEvents, maxTurn |-> ActMaxTurn, goals |-> {"g1"},
   triage |-> {"Standard_Flow"}, research |-> {<<TRUE, FALSE>>},
   plans |-> {<<"h1">>}, mgr |-> {"CLICK", "WAIT", "EXTRACT_TEXT"},
   fails |-> {"exec"}]

NextAct ==
  \/ StartTask(ActP)
  \/ ModelResolves(ActP)
  \/ BrowserResolves(ActP)
  \/ StorageResolves(ActP)

SpecAct == Init /\ [][NextAct]_vars

\* Questions the Researcher answers without the browser, possibly with an
\* empty list of facts, and a Presenter that may return nothing.
FactsP ==
  [maxEvents |-> FactsMaxEvents, maxTurn |-> FactsMaxTurn, goals |-> {"g1", "g2"},
   triage |-> {"Standard_Flow"}, research |-> {<<FALSE, FALSE>>},
   plans |-> {<<"h1">>}, mgr |-> {"CLICK"},
   fails |-> {"presenter_research", "research_facts"}]

NextFacts ==
  \/ StartTask(FactsP)
  \/ StopTask(FactsP)
  \/ ModelResolves(FactsP)
  \/ StorageResolves(FactsP)

SpecFacts == Init /\ [][NextFacts]_vars

\* A Planner that may answer without a plan, a Manager that may fail to
\* decide, and GO_AUTONOMOUS asking for a replan at any time.
PlanP ==
  [maxEvents |-> PlanMaxEvents, maxTurn |-> PlanMaxTurn, goals |-> {"g1"},
   triage |-> {"Standard_Flow"}, research |-> {<<TRUE, FALSE>>},
   plans |-> {<<"h1">>}, mgr |-> {"CLICK"}, fails |-> {"noplan", "manager"}]

NextPlan ==
  \/ StartTask(PlanP)
  \/ GoAutonomous(PlanP)
  \/ ModelResolves(PlanP)
  \/ BrowserResolves(PlanP)
  \/ StorageResolves(PlanP)

SpecPlan == Init /\ [][NextPlan]_vars

\* Tasks whose Manager starts long waits, with START_TASK, TAKE_OVER and
\* GO_AUTONOMOUS arriving at any time and the wait timers firing.
TimerP ==
  [maxEvents |-> TimerMaxEvents, maxTurn |-> TimerMaxTurn, goals |-> {"g1"},
   triage |-> {"Standard_Flow"}, research |-> {<<TRUE, FALSE>>},
   plans |-> {<<"h1">>}, mgr |-> {"LONG_WAIT"}, fails |-> {}]

NextTimer ==
  \/ StartTask(TimerP)
  \/ TakeOver(TimerP)
  \/ GoAutonomous(TimerP)
  \/ TimerFires(TimerP)
  \/ ModelResolves(TimerP)
  \/ BrowserResolves(TimerP)
  \/ StorageResolves(TimerP)

SpecTimer == Init /\ [][NextTimer]_vars

\* A session in which the user takes over and demonstrates actions:
\* START_TEACHING, TAKE_OVER and RECORDED_ACTION arrive at any time.
LearnP ==
  [maxEvents |-> LearnMaxEvents, maxTurn |-> LearnMaxTurn, goals |-> {"g1"},
   triage |-> {"Standard_Flow"}, research |-> {<<FALSE, FALSE>>},
   plans |-> {<<"h1">>}, mgr |-> {"CLICK"}, fails |-> {}]

NextLearn ==
  \/ StartTeaching(LearnP)
  \/ TakeOver(LearnP)
  \/ RecordedAction(LearnP)
  \/ BrowserResolves(LearnP)
  \/ StorageResolves(LearnP)

SpecLearn == Init /\ [][NextLearn]_vars

\* One decision-service call, with or without a structured result wanted,
\* against a service that answers each attempt in any way.  A fetch is
\* settled by the service or by the 90 s timer, and a backoff by its timer;
\* nothing bounds the read of a body.
InitCall ==
  /\ call \in {geminiCall(e) : e \in BOOLEAN}
  /\ disk = NoDisk
  /\ shown = Snapshot(NoTask)
  /\ task = NoTask
  /\ pendingCredentialValue = 0
  /\ chains = EmptyBag
  /\ timers = {}
  /\ historicalTasks = <<>>
  /\ completedTasks = <<>>
  /\ vaultUnlocked = FALSE
  /\ vaultStore = {}
  /\ learnedTools = <<>>
  /\ nextId = 0
  /\ nEvents = 0
  /\ unhandled = FALSE
  /\ last = [op |-> "init", out |-> "", by |-> 0, t |-> 0, fs |-> 0, d |-> "",
          events |-> -1]

NextCall == CallKey \/ CallFetch \/ CallText \/ CallErrBody \/ CallBackoff

SpecCall ==
  /\ InitCall
  /\ [][NextCall]_vars
  /\ WF_vars(CallKey)
  /\ WF_vars(CallFetch)
  /\ WF_vars(CallBackoff)

\* ------------------------------------------------------------------ claims
ControlEvents ==
  {"START_TASK", "STOP_TASK", "RESET_TASK_SESSION", "TAKE_OVER", "GO_AUTONOMOUS",
   "ATTEMPT_STRATEGY", "UNLOCK_VAULT", "SAVE_CREDENTIAL"}

\* C1 (as stated): whenever a task is replaced while in a non-terminal
\* status, its goal is in the persisted history once the new task is in place.
C1_NonTerminalArchived ==
  [][task'.id \notin {0, task.id} /\ task.id # 0 /\ task.status \notin Terminal
       => Has(historicalTasks', task.goal)]_vars

\* C1 (amended): a step that installs a task installs exactly the fresh task
\* of the START_TASK being handled, and when that START_TASK arrived while the
\* current task was in USER_INPUT_PENDING (chain local g), that task's goal is
\* in the persisted history at the moment the new task is installed.
C1_SingleTaskArchived ==
  [][task'.id \notin {0, task.id} =>
       /\ nextId' = nextId + 1
       /\ task' = NewTask(nextId', task'.goal)
       /\ \A c \in BagToSet(chains') :
            c.pc = "triage" /\ c.tid = task'.id /\ c.g # ""
              => Has(historicalTasks', c.g)]_vars

C1_Witness ==
  /\ last.op \in {"st_hist_get", "st_hist_set"}
  /\ task.status = "RESEARCHING"
  /\ \E c \in BagToSet(chains) :
       c.pc = "triage" /\ c.tid = task.id /\ c.g # "" /\ Has(historicalTasks, c.g)

\* C5: the continuation of a decision or environment call that was started
\* for a task other than the current one leaves the current task unchanged.
C5_StaleNotApplied ==
  [][last'.op \in ModelCalls \cup BrowserCalls /\ task.id # 0 /\ last'.by # task.id
       => task' = task]_vars

\* C6: a control event's handler changes the task only when no earlier
\* handler is still suspended at an await (the chains that are left are
\* calls nobody awaits: saveCompletedTask, runDeliberateFlow).
C6_ArrivalOrder ==
  [][last'.op \in ControlEvents /\ nEvents' # nEvents /\ task' # task
       => \A c \in BagToSet(chains) : c.root \in {"save", "delib"}]_vars

\* C2: with a plan in place, currentStep is an index of the plan.
C2_StepWithinPlan ==
  task.id # 0 /\ task.plan # <<>> => task.currentStep + 1 <= Len(task.plan)

\* C3: stepFailureCount never passes the threshold: no 4th consecutive
\* failure is recorded without a replan in between.
C3_NoFourthFailure == task.stepFailureCount <= FailureThreshold

\* C4: a plan installed for a task references no host whose failure tally
\* has reached the threshold.
C4_ThreeStrikes ==
  [][task'.id = task.id /\ task'.plan # task.plan
       => \A i \in 1..Len(task'.plan) :
            task'.plan[i] \in Hosts
              => task.websiteFailures[task'.plan[i]] < FailureThreshold]_vars

\* C7: an unsafe verdict for the current task's navigation is handled as an
\* action failure: the failure handler is entered (it awaits the active tab
\* before it counts the failure).
C7_UnsafeIsFailure ==
  [][last'.op = "verify" /\ last'.out = "unsafe" /\ task.id # 0 /\ last'.by = task.id
       => \E c \in BagToSet(chains') : c.pc = "fail_tabget" /\ c.tid = task.id]_vars

\* C8: when the wait timer resumes a WAITING task, the task leaves WAITING
\* or a next turn is started.
C8_ResumeContinues ==
  [][last'.op = "timer" /\ task.id # 0 /\ task.status = "WAITING"
       => task'.status # "WAITING" \/ chains' # chains]_vars

\* C10: when the vault has stored the credential for a task in
\* AWAITING_CREDENTIAL_NAME, the task leaves that status or a next turn is
\* started.
C10_SaveResumes ==
  [][(/\ last'.op = "cred_save" /\ vaultStore' # vaultStore
      /\ task.id # 0 /\ last'.by = task.id
      /\ task.status = "AWAITING_CREDENTIAL_NAME")
       => \/ task'.status # "AWAITING_CREDENTIAL_NAME"
          \/ \E c \in BagToSet(chains') : c.root = "cred"]_vars

\* C9: STOP_TASK handled while the task's wait timer is pending removes that
\* timer and leaves the task absent (at once, or when the pending history
\* save of a USER_INPUT_PENDING task is done); timer ids are never reused,
\* so the cancelled timer never fires.
C9_StopCancelsTimer ==
  [][/\ (/\ last'.op = "STOP_TASK" /\ nEvents' # nEvents
         /\ \E t \in timers : t.id = task.waitTimeoutId)
          => /\ \A t \in timers' : t.id # task.waitTimeoutId
             /\ \/ task' = NoTask
                \/ \E c \in BagToSet(chains') : c.root = "stop" /\ c.tid = task.id
     /\ \A t \in timers' \ timers : t.id > nextId
     /\ \A t \in timers : t.id <= nextId]_vars

C9_Witness ==
  /\ last.op = "STOP_TASK"
  /\ last.t # 0
  /\ task = NoTask
  /\ \A t \in timers : t.id # last.t

\* C11: the vault is written only by the continuation of a SAVE_CREDENTIAL
\* handler, with the value that was pending when that event arrived; a save
\* is started only by SAVE_CREDENTIAL; and a value that sits in the pending
\* slot has not been persisted.
C11_PersistOnlyOnSave ==
  [][/\ vaultStore' # vaultStore
          => /\ last'.op = "cred_save"
             /\ \E c \in BagToSet(chains) :
                  c.pc = "cred_save" /\ vaultStore' = vaultStore \cup {c.v}
     /\ \A c \in BagToSet(chains') :
          c.pc = "cred_save" /\ c \notin BagToSet(chains)
            => last'.op = "SAVE_CREDENTIAL" /\ c.v = pendingCredentialValue
     /\ pendingCredentialValue # 0 => pendingCredentialValue \notin vaultStore]_vars

C11_Witness ==
  /\ last.op = "cred_save"
  /\ last.out = "ok"
  /\ vaultStore # {}
  /\ pendingCredentialValue = 0

\* C12: when a task is stopped, reset or replaced by a new task, the
\* pending-credential slot is empty afterwards.
C12_SlotClearedOnTermination ==
  [][task.id # 0 /\ task'.id # task.id => pendingCredentialValue' = 0]_vars

\* C13: RESET_TASK_SESSION handled with no active task changes nothing and
\* raises nothing, and the state after any RESET_TASK_SESSION is a fixed
\* point of the handler: a second reset yields the same state.
C13_ResetIdempotent ==
  [][last'.op = "RESET_TASK_SESSION"
       => /\ task = NoTask
               => UNCHANGED <<task, pendingCredentialValue, chains, timers,
                              historicalTasks, completedTasks, vaultUnlocked,
                              vaultStore, nextId, unhandled>>
          /\ handleResetTaskSession(World').w = World'
          /\ handleResetTaskSession(World').th = <<>>
          /\ unhandled' = unhandled]_vars

C13_Witness ==
  /\ last.op = "RESET_TASK_SESSION"
  /\ task = NoTask
  /\ nextId = 0
  /\ nEvents >= 2
  /\ ~unhandled

C15_ReplanResets ==
  [][/\ \A c \in BagToSet(chains') :
          c.pc = "replan_ctx" /\ CopiesIn(c, chains') > CopiesIn(c, chains)
            => /\ task'.status = "REPLANNING"
               /\ c.fs = task'.currentStep + 1
               /\ c.fs = task.currentStep + 1
     /\ (last'.op = "replan" /\ last'.out = "plan" /\ task.status = "REPLANNING")
          => /\ \E c \in BagToSet(chains) :
                  c.pc = "replan" /\ task'.plan \in ReplanPlans(TurnP, c)
             /\ task'.currentStep = 0
             /\ task'.stepFailureCount = 0
             /\ \/ task.tabs /\ task'.status = "THINKING" /\ task'.turn = task.turn + 1
                \/ ~task.tabs /\ \E c \in BagToSet(chains') : c.pc = "starttab_url"]_vars

C15_Witness ==
  /\ last.op = "replan"
  /\ last.out = "plan"
  /\ last.fs = 2
  /\ task.status = "THINKING"
  /\ task.plan = <<"elsewhere", "elsewhere">>
  /\ task.currentStep = 0
  /\ task.stepFailureCount = 0

\* C16: when the Teacher's summary, or a step of the tool save after it,
\* resolves and the handler's task is no longer the active one (it was
\* stopped or replaced), nothing is written on the active task, no
\* completed-task record is made and no save of one is started.
C16_StaleSummaryDiscarded ==
  [][(last'.op \in {"teach_summary", "tool_tab", "tool_get", "tool_set"}
        /\ last'.by # task.id)
       => /\ task' = task
          /\ completedTasks' = completedTasks
          /\ \A c \in BagToSet(chains') :
               c.pc = "sc_get" => CopiesIn(c, chains') = CopiesIn(c, chains)]_vars

C16_Witness ==
  /\ last.op = "teach_summary"
  /\ task.id # 0
  /\ task.id # last.by
  /\ task.finalAnswer = ""
  /\ task.status # "COMPLETED"

\* C17: while the task is in USER_INPUT_PENDING and until GO_AUTONOMOUS, a
\* stop or a new task, the status stays USER_INPUT_PENDING and no Manager
\* call and no action execution is started, whatever was in flight.
C17_TakeOverSuspends ==
  [][(task.status = "USER_INPUT_PENDING" /\ task'.id = task.id
        /\ last'.op # "GO_AUTONOMOUS")
       => /\ task'.status = "USER_INPUT_PENDING"
          /\ \A c \in BagToSet(chains') :
               c.pc \in {"manager", "tab_update", "exec"}
                 => CopiesIn(c, chains') <= CopiesIn(c, chains)]_vars

\* C18: while a task holds the consensus of the debate flow as its answer
\* (ATTEMPT_STRATEGY clears the answer), no step other than the handling of
\* ATTEMPT_STRATEGY starts a turn for it.
C18_DebateNotExecuted ==
  [][(task.isDeliberatePlan /\ task.finalAnswer = "consensus"
        /\ task'.id = task.id /\ last'.op # "ATTEMPT_STRATEGY")
       => task'.turn = task.turn]_vars

\* The state a STOP_TASK handler leaves when nothing else runs before its
\* awaited history write has resolved.
stopTaskCompleted(w) ==
  LET r0 == handleStopTask(w)
      r1 == IF r0.th = <<>> THEN r0 ELSE Resume(r0.w, r0.th[1], O("ok"))
      r2 == IF r1.th = <<>> THEN r1 ELSE Resume(r1.w, r1.th[1], O("ok"))
  IN  r2.w

\* C19: in every state, STOP_TASK and RESET_TASK_SESSION lead to the same
\* state (timer cancelled, goal archived when the task was in
\* USER_INPUT_PENDING, task absent).
C19_StopEqualsReset ==
  [stopTaskCompleted(World) EXCEPT !.shown = shown]
    = [handleResetTaskSession(World).w EXCEPT !.shown = shown]

\* C20: when a call of the turn loop (start tab, observation, Manager,
\* action execution) fails, the step that handles the failure does not set
\* the task to FAILED.
C20_TurnFailureNotFatal ==
  [][(last'.op \in {"starttab_open", "observe", "manager", "exec"}
        /\ last'.out \in {"fail", "null"}
        /\ task.status # "FAILED")
       => task'.status # "FAILED"]_vars

\* C21: when the Manager call of a turn ends with the service's capacity
\* exhausted, the task does not enter REPLANNING and the Presenter is asked
\* for a partial success.
C21_LimitIsPartialSuccess ==
  [][(last'.op = "manager" /\ last'.out = "limit" /\ task # NoTask)
       => /\ task'.status # "REPLANNING"
          /\ \E c \in BagToSet(chains') :
               c.pc = "presenter_answer" /\ c.d = "PARTIAL_SUCCESS"]_vars

\* C22: a call is never in an attempt beyond the 5th; a 429/503 or a
\* timeout on attempts 1-4 is followed by a backoff and then by the next
\* attempt, on the 5th attempt by the call raising; and every call ends,
\* with a result or with an error.
C22_BoundedAttempts ==
  /\ [](call.attempt <= MaxRetries)
  /\ [][(call.phase = "fetch" /\ call' # call /\ call'.outcome \in {"busy", "timeout"})
          => IF call.attempt < MaxRetries
             THEN call'.phase = "backoff" /\ call'.delays = call.delays + 1
             ELSE call'.phase = "raised"]_vars
  /\ [][(call.phase = "backoff" /\ call' # call)
          => call'.phase = "fetch" /\ call'.attempt = call.attempt + 1]_vars
  /\ <>(call.phase \in {"returned", "raised"})

\* C23, as stated: a transport failure other than 429/503 and the timeout
\* ends the call with no backoff and no further attempt.
C23_NoRetryUnlessTransient ==
  [][(call.phase \in {"fetch", "text"} /\ call' # call
        /\ call'.outcome \in {"http_other", "network", "body"})
       => call'.phase \in {"errbody", "raised"} /\ call'.delays = call.delays]_vars

\* C23, amended: a response with an error status other than 429 and 503
\* ends the call, with no backoff and no further attempt, once its body was
\* read; a request that fails without a response (fetch rejects, or the
\* body of a successful response cannot be read) is retried after a backoff
\* like a transient failure, and raised on the 5th attempt.
C23_NoRetryOnErrorStatus ==
  [][/\ (call.phase = "fetch" /\ call' # call /\ call'.outcome = "http_other")
          => /\ call'.phase = "errbody"
             /\ call'.delays = call.delays
             /\ call'.attempt = call.attempt
     /\ (call.phase = "errbody" /\ call' # call)
          => /\ call'.phase = "raised"
             /\ call'.delays = call.delays
             /\ call'.attempt = call.attempt
     /\ (call.phase \in {"fetch", "text"} /\ call' # call
           /\ call'.outcome \in {"network", "body"})
          => IF call.attempt < MaxRetries
             THEN call'.phase = "backoff" /\ call'.delays = call.delays + 1
             ELSE call'.phase = "raised"]_vars

C23_Witness ==
  /\ call.phase = "raised"
  /\ call.outcome = "http_other"
  /\ call.attempt = 1
  /\ call.delays = 0

\* C24: when a structured result was wanted and the text of the response
\* neither parses nor can be repaired locally, one secondary call is issued;
\* and no call issues more than one.
C24_OneRepairCall ==
  /\ [][(call.phase = "text" /\ call.depth = 0 /\ call.expectJson
           /\ call' # call /\ call'.payload = "text_bad" /\ call'.outcome = "ok")
          => /\ call'.repairs = call.repairs + 1
             /\ call'.phase = "key"]_vars
  /\ [](call.repairs <= 1)

\* C25: the Presenter's answer to a Manager ANSWER or PARTIAL_SUCCESS
\* completes the task with the Presenter's summary and with isPartialSuccess
\* true exactly for PARTIAL_SUCCESS (no answer: FAILED); nothing but an
\* answered Presenter call sets COMPLETED; and a FAIL decision taken in
\* THINKING sets FAILED at once, with no Presenter call.
C25_PresenterBeforeCompleted ==
  [][/\ (last'.op = "presenter_answer" /\ task # NoTask)
          => /\ last'.d \in {"ANSWER", "PARTIAL_SUCCESS"}
             /\ IF last'.out = "ok"
                THEN /\ task'.status = "COMPLETED"
                     /\ task'.finalAnswer = "presenter"
                     /\ task'.isPartialSuccess = (last'.d = "PARTIAL_SUCCESS")
                ELSE /\ task'.status = "FAILED"
                     /\ task'.finalAnswer = task.finalAnswer
     /\ (task'.status = "COMPLETED" /\ task.status # "COMPLETED")
          => /\ last'.op \in {"presenter_answer", "presenter_empty"}
             /\ last'.out = "ok"
             /\ task'.finalAnswer = "presenter"
     /\ (last'.op = "manager" /\ last'.out = "ok" /\ last'.d = "FAIL"
           /\ task.status = "THINKING")
          => /\ task'.status = "FAILED"
             /\ \A c \in BagToSet(chains') :
                  c.pc = "presenter_answer"
                    => CopiesIn(c, chains') <= CopiesIn(c, chains)]_vars

C25_Witness ==
  /\ last.op = "presenter_answer"
  /\ last.out = "ok"
  /\ last.d = "PARTIAL_SUCCESS"
  /\ task.status = "COMPLETED"
  /\ task.finalAnswer = "presenter"
  /\ task.isPartialSuccess

\* C26: a FAILED task carries a failure reason, and its scratchpad holds an
\* entry with that reason, whatever brought the task to FAILED.
C26_FailedHasReason ==
  task.status = "FAILED"
    => /\ task.failureReason # ""
       /\ Has(task.scratchpad, task.failureReason)

\* C27: while the task stays the same one, every step leaves the previous
\* scratchpad as a prefix of the new one: no entry is removed, changed or
\* moved.
C27_ScratchpadAppendOnly ==
  [][(task # NoTask /\ task'.id = task.id)
       => /\ Len(task'.scratchpad) >= Len(task.scratchpad)
          /\ SubSeq(task'.scratchpad, 1, Len(task.scratchpad)) = task.scratchpad]_vars

C27_Witness ==
  /\ task # NoTask
  /\ Len(task.scratchpad) >= 4
  /\ task.status = "REPLANNING"

\* C28: UNLOCK_VAULT outside AWAITING_PASSPHRASE, SAVE_CREDENTIAL outside
\* AWAITING_CREDENTIAL_NAME, ATTEMPT_STRATEGY for a task that is not a
\* completed debate consensus and STOP_TEACHING outside TEACHING are no-ops:
\* neither their receipt nor the answer of the vault to the unlock changes
\* status, plan, currentStep or a counter, starts a decision or browser call,
\* or raises an error.
C28_UnexpectedEventIsNoOp ==
  [][(\/ last'.op = "UNLOCK_VAULT" /\ task.status # "AWAITING_PASSPHRASE"
      \/ last'.op = "unlock" /\ task.status # "AWAITING_PASSPHRASE"
      \/ last'.op = "SAVE_CREDENTIAL" /\ task.status # "AWAITING_CREDENTIAL_NAME"
      \/ /\ last'.op = "ATTEMPT_STRATEGY"
         /\ ~(task.status = "COMPLETED" /\ task.finalAnswer = "consensus")
      \/ last'.op = "STOP_TEACHING" /\ task.status # "TEACHING")
       => /\ task'.status = task.status
          /\ task'.plan = task.plan
          /\ task'.currentStep = task.currentStep
          /\ task'.turn = task.turn
          /\ task'.stepFailureCount = task.stepFailureCount
          /\ task'.websiteFailures = task.websiteFailures
          /\ \A c \in BagToSet(chains') :
               c.pc \in ModelCalls \cup BrowserCalls
                 => CopiesIn(c, chains') <= CopiesIn(c, chains)
          /\ unhandled' = unhandled]_vars

\* C29: a vault error leaves the task suspended where it waits: an unlock
\* the vault refuses while the task is AWAITING_PASSPHRASE, and a save the
\* locked vault refuses while it is AWAITING_CREDENTIAL_NAME, keep the
\* task, its status, plan, step, research data and the pending value.
C29_VaultErrorSuspends ==
  [][(\/ /\ last'.op = "unlock" /\ last'.out # "ok"
         /\ task.status = "AWAITING_PASSPHRASE"
      \/ /\ last'.op = "cred_save" /\ ~vaultUnlocked
         /\ task.status = "AWAITING_CREDENTIAL_NAME")
       => /\ task'.id = task.id
          /\ task'.status = task.status
          /\ task'.plan = task.plan
          /\ task'.currentStep = task.currentStep
          /\ task'.researchData = task.researchData
          /\ task'.researcherDecision = task.researcherDecision
          /\ pendingCredentialValue' = pendingCredentialValue]_vars

\* C30: whenever a new task takes the place of a task that is in
\* USER_INPUT_PENDING, by START_TASK or by START_TEACHING, the goal of the
\* task it replaces is in the persisted history once the new task is in
\* place, and the new task is the fresh one of that event.
C30_PendingTaskArchived ==
  [][(task'.id \notin {0, task.id} /\ task.status = "USER_INPUT_PENDING")
       => /\ Has(historicalTasks', task.goal)
          /\ task'.id = nextId'
          /\ task'.status \in {"RESEARCHING", "TEACHING"}]_vars

\* C31: every action recorded while the user demonstrates is appended to the
\* learned tools: the store write that ends the handling of a
\* RECORDED_ACTION leaves every entry the store held in place and adds its
\* own after them, and no step removes or replaces an entry.
C31_RecordedActionsKept ==
  [][Len(learnedTools) < ToolsCap
       => /\ Len(learnedTools') >= Len(learnedTools)
          /\ SubSeq(learnedTools', 1, Len(learnedTools)) = learnedTools
          /\ last'.op = "la_set" => Len(learnedTools') = Len(learnedTools) + 1]_vars

NewestFirst(list) ==
  \A i \in 1..Len(list) : \A j \in i..Len(list) :
    list[i].timestamp >= list[j].timestamp

\* C32: whatever saves ran, and however their reads and writes overlapped,
\* the persisted history has at most 10 entries, most recent first, no two
\* with the same goal, and the completed list at most 50, most recent first.
C32_ListsBoundedOrdered ==
  /\ Len(disk.hist) <= HistoryCap
  /\ NewestFirst(disk.hist)
  /\ \A i \in 1..Len(disk.hist) : \A j \in 1..Len(disk.hist) :
       disk.hist[i].goal = disk.hist[j].goal => i = j
  /\ Len(disk.done) <= CompletedCap
  /\ NewestFirst(disk.done)

C32_Witness ==
  /\ Len(disk.hist) = HistoryCap
  /\ disk.hist[1].goal > HistoryCap
  /\ disk.hist[1].timestamp > 0
  /\ Len(disk.done) = CompletedCap
  /\ disk.done[1].timestamp > 0
  /\ disk.started = StoreMaxSaves
  /\ \E op \in disk.ops : op.pc = "set"

\* C33: the turn counter of the task counts its Manager calls (managerCalls
\* counts the calls of getManagerDecision() made by the turns started for
\* the task): the two differ by no more than the one turn that is under way
\* and has not yet reached its Manager call.
C33_TurnCountsManagerCalls ==
  /\ task.managerCalls <= task.turn
  /\ task.turn <= task.managerCalls + 1

\* C34: every change of the task is followed by a TASK_UPDATE that shows it:
\* a step that changes the status or the scratchpad of the task sends the
\* new ones, and whatever happened to the task - its removal by STOP_TASK or
\* RESET_TASK_SESSION included - the last message sent comes to show the
\* task as it is.
C34_ChangesBroadcast ==
  /\ [][(task.id # 0 /\ task'.id = task.id /\ Snapshot(task') # Snapshot(task))
          => shown' = Snapshot(task')]_vars
  /\ []<>(shown = Snapshot(task))

ActiveStatuses ==
  {"RESEARCHING", "PLANNING", "THINKING", "VERIFYING", "EXECUTING", "REPLANNING"}

\* C35: a task in an active status (RESEARCHING, PLANNING, THINKING,
\* VERIFYING, EXECUTING, REPLANNING) always has an orchestrator continuation
\* pending: some handler is suspended at an awaited call (the saves that are
\* fired without being awaited do not count), so the task will move on.
C35_ActiveTaskHasContinuation ==
  task.status \in ActiveStatuses
    => \E c \in BagToSet(chains) : c.root \notin {"save", "learn"}

PageActions ==
  {"CLICK", "TYPE", "GOTO", "SUBMIT", "SEARCH", "SCROLL_DOWN", "PRESS_ESCAPE",
   "READ", "EXTRACT_TEXT", "SEARCH_PAGE", "OPEN_TAB", "CHANGE_TAB", "WAIT"}

\* C36: a page-level action run by handleAction dispatches exactly one
\* continuation event (ACTION_COMPLETE, ACTION_FAILED or TEXT_EXTRACTED),
\* whether it succeeds or fails.
C36_OneContinuationEvent ==
  [][(last'.d \in PageActions /\ last'.events # -1) => last'.events = 1]_vars

\* C37: a LONG_WAIT timer resumes only the wait that scheduled it: when a
\* timer fires and resumes a WAITING task, it is the timer that task set for
\* its present wait; and at most one wait timer is pending at any time.
C37_TimerResumesOwnWait ==
  /\ [][(last'.op = "timer" /\ task.id # 0 /\ task.status = "WAITING")
          => (last'.by = task.id /\ last'.t = task.waitTimeoutId)]_vars
  /\ [](Cardinality(timers) <= 1)

\* The awaits of a turn: a Manager or Planner call, or an action on the page.
TurnCalls == {"manager", "plan", "replan", "tab_update", "exec", "tabload"}

\* C38: at most one turn is in flight for the current task: no two suspended
\* handlers of that task wait for a Manager call, a Planner call or a page
\* action at the same time.
C38_OneTurnInFlight ==
  LET S == {c \in BagToSet(chains) : c.tid = task.id /\ c.pc \in TurnCalls}
  IN  task.id # 0 => /\ Cardinality(S) <= 1
                     /\ \A c \in S : CopiesIn(c, chains) <= 1

\* C39: the task's plan is always a sequence of steps, and a Planner result
\* without a plan, for the initial plan or for a replan, fails the current
\* task with a reason and leaves its plan as it was.
C39_PlanWellFormed ==
  /\ [](~task.planUndefined)
  /\ [][(/\ last'.op \in {"plan", "replan"} /\ last'.out = "noplan"
         /\ task.id # 0 /\ last'.by = task.id
         /\ task.status = (IF last'.op = "plan" THEN "PLANNING" ELSE "REPLANNING"))
          => /\ task'.status = "FAILED"
             /\ task'.failureReason # ""
             /\ task'.plan = task.plan]_vars

\* C40: a task whose status is COMPLETED has a final answer that is set and
\* not empty.
C40_CompletedHasAnswer ==
  task.status = "COMPLETED" => task.finalAnswer # ""
====
